---- MODULE Spec2Model ----
(***************************************************************************)
(* A model of ml-backend/goal_planner.py: the universe builder, the price  *)
(* download loop, the candidate ranker, the random-search optimiser, the   *)
(* Monte Carlo goal simulator and the command-line pipeline (main).        *)
(*                                                                         *)
(* Every function of the source has a frame variable holding its          *)
(* arguments, its locals under their source names and its position (pc).   *)
(* A loop body is an operator; the frame's action applies it once per      *)
(* iteration, and the pipeline applies the same operators folded over the  *)
(* whole loop.                                                             *)
(***************************************************************************)
EXTENDS Integers, Sequences, FiniteSets, TLC

VARIABLES
    universe,    \* the frame of build_universe
    download,    \* the frame of download_prices
    ranker,      \* the frame of rank_candidates
    optimizer,   \* the frame of optimize_portfolio
    simulator,   \* the frame of simulate_goal and of the report computed from it
    pipeline     \* the frame of main

vars == << universe, download, ranker, optimizer, simulator, pipeline >>

Idle == [pc |-> "idle"]

Range(s) == { s[k] : k \in 1..Len(s) }

Min(a, b) == IF a <= b THEN a ELSE b

Max(a, b) == IF a >= b THEN a ELSE b

(***************************************************************************)
(* Python's s[:n]: the first n items, or for n < 0 all but the last -n.    *)
(***************************************************************************)
SliceTo(s, n) ==
    IF n >= 0 THEN SubSeq(s, 1, Min(n, Len(s)))
              ELSE SubSeq(s, 1, Max(Len(s) + n, 0))

(***************************************************************************)
(* Floating-point values.  A value is finite (an exact fraction n/d, d > 0,*)
(* in lowest terms), NaN, +inf or -inf.  The operators follow IEEE-754 as  *)
(* numpy applies it (x/0 is +-inf or NaN, NaN compares false with          *)
(* everything); rounding and the sign of zero are not modelled.            *)
(***************************************************************************)
RECURSIVE GCD(_, _)
GCD(a, b) == IF b = 0 THEN a ELSE GCD(b, a % b)

AbsInt(a) == IF a < 0 THEN -a ELSE a

Fin(n, d) ==
    LET s == IF d < 0 THEN -1 ELSE 1
        g == GCD(AbsInt(n), AbsInt(d))
    IN [kind |-> "fin", n |-> (s * n) \div g, d |-> (s * d) \div g]

Num(n) == [kind |-> "fin", n |-> n, d |-> 1]

NaN == [kind |-> "nan", n |-> 0, d |-> 1]

PosInf == [kind |-> "inf", n |-> 1, d |-> 1]

NegInf == [kind |-> "inf", n |-> -1, d |-> 1]

IsNaN(x) == x.kind = "nan"

IsFinite(x) == x.kind = "fin"

Sign(x) == IF x.n > 0 THEN 1 ELSE IF x.n < 0 THEN -1 ELSE 0

InfOfSign(s) == IF s > 0 THEN PosInf ELSE NegInf

FNeg(x) == IF IsFinite(x) THEN [x EXCEPT !.n = -x.n]
           ELSE IF IsNaN(x) THEN NaN ELSE InfOfSign(-Sign(x))

FAbs(x) == IF IsFinite(x) THEN [x EXCEPT !.n = AbsInt(x.n)]
           ELSE IF IsNaN(x) THEN NaN ELSE PosInf

FAdd(x, y) ==
    IF IsNaN(x) \/ IsNaN(y) THEN NaN
    ELSE IF IsFinite(x) /\ IsFinite(y) THEN Fin(x.n * y.d + y.n * x.d, x.d * y.d)
    ELSE IF IsFinite(x) THEN y
    ELSE IF IsFinite(y) THEN x
    ELSE IF Sign(x) = Sign(y) THEN x ELSE NaN

FSub(x, y) == FAdd(x, FNeg(y))

FMul(x, y) ==
    IF IsNaN(x) \/ IsNaN(y) THEN NaN
    ELSE IF IsFinite(x) /\ IsFinite(y) THEN Fin(x.n * y.n, x.d * y.d)
    ELSE IF Sign(x) = 0 \/ Sign(y) = 0 THEN NaN
    ELSE InfOfSign(Sign(x) * Sign(y))

FDiv(x, y) ==
    IF IsNaN(x) \/ IsNaN(y) THEN NaN
    ELSE IF IsFinite(x) /\ IsFinite(y)
         THEN IF y.n # 0 THEN Fin(x.n * y.d, x.d * y.n)
              ELSE IF x.n = 0 THEN NaN ELSE InfOfSign(Sign(x))
    ELSE IF IsFinite(x) THEN Num(0)
    ELSE IF IsFinite(y) THEN InfOfSign(Sign(x) * (IF Sign(y) < 0 THEN -1 ELSE 1))
    ELSE NaN

\* x < y; false whenever either side is NaN.
FLess(x, y) ==
    IF IsNaN(x) \/ IsNaN(y) THEN FALSE
    ELSE IF IsFinite(x) /\ IsFinite(y)
         THEN LET fx == x.n \div x.d
                  fy == y.n \div y.d
              IN fx < fy \/ (fx = fy /\ (x.n % x.d) * y.d < (y.n % y.d) * x.d)
    ELSE IF IsFinite(x) THEN Sign(y) > 0
    ELSE IF IsFinite(y) THEN Sign(x) < 0
    ELSE Sign(x) < Sign(y)

\* x >= y; false whenever either side is NaN.
FGeq(x, y) == ~IsNaN(x) /\ ~IsNaN(y) /\ ~FLess(x, y)

\* The largest r >= 0 with r * r <= a.
ISqrt(a) == CHOOSE r \in 0..a : r * r <= a /\ (r + 1) * (r + 1) > a

\* np.sqrt: NaN for NaN and for a negative radicand.  The root of n/d is exact
\* when n and d are squares; any other radicand is rounded down to a multiple
\* of 1/d.
FSqrt(x) ==
    IF IsNaN(x) THEN NaN
    ELSE IF ~IsFinite(x) THEN (IF Sign(x) > 0 THEN PosInf ELSE NaN)
    ELSE IF x.n < 0 THEN NaN
    ELSE IF ISqrt(x.n) * ISqrt(x.n) = x.n /\ ISqrt(x.d) * ISqrt(x.d) = x.d
         THEN Fin(ISqrt(x.n), ISqrt(x.d))
    ELSE Fin(ISqrt(x.n * x.d), x.d)

\* Percentages as fractions: Pct(18) is 0.18.
Pct(p) == Fin(p, 100)

(***************************************************************************)
(* Static stock symbols                                                    *)
(***************************************************************************)
get_sp500_tickers ==
    << "AAPL", "MSFT", "AMZN", "GOOGL", "GOOG", "META", "NVDA", "TSLA", "BRK-B", "UNH",
       "JNJ", "V", "PG", "XOM", "JPM", "MA", "HD", "CVX", "LLY", "ABBV", "PEP", "KO",
       "MRK", "PFE", "BAC", "AVGO", "COST", "WMT", "MCD", "DIS", "ADBE", "CSCO", "ACN",
       "TMO", "NFLX", "TXN", "ABT", "CMCSA", "VZ", "ORCL", "CRM", "INTC", "AMD", "QCOM",
       "HON", "LOW", "LIN", "AMT", "CAT", "NKE", "UPS" >>

get_nasdaq100_tickers ==
    << "AAPL", "MSFT", "AMZN", "NVDA", "GOOG", "GOOGL", "META", "TSLA", "PEP", "AVGO",
       "COST", "ADBE", "NFLX", "INTC", "CSCO", "AMD", "TXN", "QCOM", "AMAT", "INTU",
       "ISRG", "PYPL", "MU", "LRCX", "ADI", "REGN", "VRTX", "MELI", "CRWD", "PANW", "SHOP",
       "WDAY", "MRVL", "KLAC", "CDNS", "SNPS", "ORLY", "MAR", "ADSK", "TEAM", "ZS" >>

get_ftse100_tickers ==
    << "BP.L", "SHEL.L", "HSBA.L", "ULVR.L", "AZN.L", "GSK.L", "RIO.L", "GLEN.L", "BATS.L",
       "DGE.L", "VOD.L", "LLOY.L", "BARC.L", "RKT.L", "IMB.L", "NG.L", "BT-A.L", "RR.L",
       "BA.L", "TSCO.L", "SPX.L", "AAL.L", "STAN.L", "REL.L", "ABF.L", "AUTO.L", "CNA.L",
       "CCEP.L", "SMIN.L", "INF.L", "SGRO.L", "EXPN.L", "HIK.L", "HLMA.L", "JD.L", "PRU.L",
       "SSE.L", "ENT.L", "MNDI.L", "LAND.L" >>

(***************************************************************************)
(* build_universe                                                          *)
(***************************************************************************)
\* The arguments of build_universe: the five keyword toggles.
UniverseArgs ==
    [include_sp500 : BOOLEAN, include_ftse100 : BOOLEAN, include_nasdaq100 : BOOLEAN,
     include_indices : BOOLEAN, fallback_if_empty : BOOLEAN]

\* tickers after the three "if include_...: tickers += ..." statements.
\* include_indices and fallback_if_empty are accepted and never read.
ConcatSelected(args) ==
    (IF args.include_sp500 THEN get_sp500_tickers ELSE << >>)
    \o (IF args.include_ftse100 THEN get_ftse100_tickers ELSE << >>)
    \o (IF args.include_nasdaq100 THEN get_nasdaq100_tickers ELSE << >>)

\* A plausible slip: every ticker is appended, seen or not.
DedupStepNoCheck(st, t) ==
    [k |-> st.k + 1, seen |-> st.seen \cup {t}, deduped |-> Append(st.deduped, t)]

\* One iteration of "for t in tickers", t being tickers[st.k]: append t unless
\* already seen.
DedupStep(st, t) ==
    IF t \notin st.seen
    THEN [k |-> st.k + 1, seen |-> st.seen \cup {t}, deduped |-> Append(st.deduped, t)]
    ELSE [st EXCEPT !.k = @ + 1]

\* The iterations from position st.k up to position hi, split in halves.
RECURSIVE DedupUpTo(_, _, _)
DedupUpTo(st, tickers, hi) ==
    IF st.k > hi THEN st
    ELSE IF st.k = hi THEN DedupStep(st, tickers[hi])
    ELSE DedupUpTo(DedupUpTo(st, tickers, (st.k + hi) \div 2), tickers, hi)

\* build_universe as a whole: it has no raise statement, so it always returns.
BuildUniverse(args) ==
    [status |-> "returned",
     value |-> DedupUpTo([k |-> 1, seen |-> {}, deduped |-> << >>], ConcatSelected(args),
                         Len(ConcatSelected(args))).deduped]

UniverseEnter(args) ==
    [pc |-> "concat", args |-> args]

UniverseConcat ==
    /\ universe.pc = "concat"
    /\ universe' = [pc |-> "dedup", args |-> universe.args,
                    tickers |-> ConcatSelected(universe.args),
                    k |-> 1, seen |-> {}, deduped |-> << >>]
    /\ UNCHANGED << download, ranker, optimizer, simulator, pipeline >>

UniverseDedup ==
    /\ universe.pc = "dedup"
    /\ universe.k <= Len(universe.tickers)
    /\ LET st == DedupStep([k |-> universe.k, seen |-> universe.seen,
                            deduped |-> universe.deduped],
                           universe.tickers[universe.k])
       IN universe' = [universe EXCEPT !.k = st.k, !.seen = st.seen,
                                       !.deduped = st.deduped]
    /\ UNCHANGED << download, ranker, optimizer, simulator, pipeline >>

UniverseReturn ==
    /\ universe.pc = "dedup"
    /\ universe.k > Len(universe.tickers)
    /\ universe' = [pc |-> "returned", args |-> universe.args,
                    tickers |-> universe.tickers, result |-> universe.deduped]
    /\ UNCHANGED << download, ranker, optimizer, simulator, pipeline >>

InitUniverse ==
    /\ universe \in { UniverseEnter(a) : a \in UniverseArgs }
    /\ download = Idle /\ ranker = Idle /\ optimizer = Idle
    /\ simulator = Idle /\ pipeline = Idle

NextUniverse == UniverseConcat \/ UniverseDedup \/ UniverseReturn

SpecUniverse == InitUniverse /\ [][NextUniverse]_vars

\* The position of the first occurrence of t in s (0 when t does not occur).
FirstIndex(s, t) ==
    IF t \in Range(s) THEN CHOOSE k \in 1..Len(s) : s[k] = t /\ \A j \in 1..(k - 1) : s[j] # t
    ELSE 0

\* The identifiers of the membership lists the toggles select.
SelectedIds(args) ==
    (IF args.include_sp500 THEN Range(get_sp500_tickers) ELSE {})
    \cup (IF args.include_ftse100 THEN Range(get_ftse100_tickers) ELSE {})
    \cup (IF args.include_nasdaq100 THEN Range(get_nasdaq100_tickers) ELSE {})

\* C8: for every combination of toggles build_universe returns exactly the
\* identifiers of the selected lists, each once, ordered by first occurrence in
\* the concatenation of the selected lists.
C8_UniverseIsOrderedUnion ==
    universe.pc = "returned" =>
        LET r == universe.result
        IN /\ Range(r) = SelectedIds(universe.args)
           /\ \A a, b \in 1..Len(r) : a # b => r[a] # r[b]
           /\ \A a, b \in 1..Len(r) :
                a < b => FirstIndex(universe.tickers, r[a]) < FirstIndex(universe.tickers, r[b])
           /\ r = BuildUniverse(universe.args).value

\* C8 witness: two overlapping lists were selected and the duplicate identifiers
\* were dropped.
C8_Witness ==
    /\ universe.pc = "returned"
    /\ universe.args.include_sp500 /\ universe.args.include_nasdaq100
    /\ Len(universe.result) < Len(universe.tickers)
    /\ Len(universe.result) > Len(get_sp500_tickers)

(***************************************************************************)
(* download_prices                                                         *)
(*                                                                         *)
(* The market-data provider is the environment.  Its answer to one         *)
(* yf.download call is an exception, an empty frame, a frame with neither  *)
(* an "Adj Close" nor a "Close" column, or a frame with a close series.    *)
(* A series is described by what the rest of the program reads from it:    *)
(* the number of rows from its first price on (0: every value missing) and *)
(* the annualised mean and deviation of its daily log returns.             *)
(***************************************************************************)
Series(points, mu, sigma) == [points |-> points, mu |-> mu, sigma |-> sigma]

ProviderException == [kind |-> "exception", series |-> Series(0, NaN, NaN)]

ProviderEmpty == [kind |-> "empty", series |-> Series(0, NaN, NaN)]

ProviderNoClose == [kind |-> "noclose", series |-> Series(0, NaN, NaN)]

ProviderData(series) == [kind |-> "data", series |-> series]

\* download_prices aborts on the first ticker whose download raises.
DownloadStepAbortOnException(st, t, resp) ==
    LET logged == [st EXCEPT !.k = @ + 1, !.log = Append(@, t)]
    IN IF resp.kind = "exception"
       THEN [logged EXCEPT !.pc = "raised",
                           !.result = [status |-> "raised", error |-> "Exception"]]
       ELSE IF resp.kind \in {"empty", "noclose"} THEN logged
       ELSE [logged EXCEPT !.frames = Append(@, [name |-> t, series |-> resp.series])]

\* One iteration of "for t in tickers": the try block and its except clause.
\* log holds the tickers of the "Downloading ..." lines printed so far.
DownloadStep(st, t, resp) ==
    LET logged == [st EXCEPT !.k = @ + 1, !.log = Append(@, t)]
    IN IF resp.kind \in {"exception", "empty", "noclose"} THEN logged
       ELSE [logged EXCEPT !.frames = Append(@, [name |-> t, series |-> resp.series])]

\* prices = pd.concat(frames, axis=1).ffill().dropna(how="all", axis=1)
DropAllMissingColumns(frames) == SelectSeq(frames, LAMBDA c : c.series.points > 0)

\* The statements after the loop: both RuntimeErrors and the return.
DownloadFinish(st) ==
    IF st.frames = << >>
    THEN [st EXCEPT !.pc = "raised", !.result = [status |-> "raised", error |-> "RuntimeError"]]
    ELSE IF DropAllMissingColumns(st.frames) = << >>
    THEN [st EXCEPT !.pc = "raised", !.result = [status |-> "raised", error |-> "RuntimeError"]]
    ELSE [st EXCEPT !.pc = "returned",
                    !.result = [status |-> "returned",
                                value |-> DropAllMissingColumns(st.frames)]]

\* The entry of download_prices: "if not tickers: raise ValueError".
DownloadEnter(tickers, feed) ==
    [pc |-> "check", tickers |-> tickers, feed |-> feed, k |-> 1, frames |-> << >>,
     log |-> << >>, result |-> [status |-> "running"]]

DownloadCheckTickers(st) ==
    IF st.tickers = << >>
    THEN [st EXCEPT !.pc = "raised", !.result = [status |-> "raised", error |-> "ValueError"]]
    ELSE [st EXCEPT !.pc = "loop"]

\* The iterations from position st.k up to position hi, split in halves.
RECURSIVE DownloadUpTo(_, _)
DownloadUpTo(st, hi) ==
    IF st.k > hi \/ st.pc # "loop" THEN st
    ELSE IF st.k = hi THEN DownloadStep(st, st.tickers[hi], st.feed[hi])
    ELSE DownloadUpTo(DownloadUpTo(st, (st.k + hi) \div 2), hi)

\* download_prices as a whole, the provider answering feed[k] for tickers[k].
DownloadPrices(tickers, feed) ==
    LET checked == DownloadCheckTickers(DownloadEnter(tickers, feed))
        looped == DownloadUpTo(checked, Len(tickers))
    IN IF looped.pc = "loop" THEN DownloadFinish(looped) ELSE looped

DownloadCheck ==
    /\ download.pc = "check"
    /\ download' = DownloadCheckTickers(download)
    /\ UNCHANGED << universe, ranker, optimizer, simulator, pipeline >>

DownloadAttempt ==
    /\ download.pc = "loop"
    /\ download.k <= Len(download.tickers)
    /\ download' = DownloadStep(download, download.tickers[download.k],
                                download.feed[download.k])
    /\ UNCHANGED << universe, ranker, optimizer, simulator, pipeline >>

DownloadEnd ==
    /\ download.pc = "loop"
    /\ download.k > Len(download.tickers)
    /\ download' = DownloadFinish(download)
    /\ UNCHANGED << universe, ranker, optimizer, simulator, pipeline >>

\* The longest ticker list of the download runs.
MaxTickers == 3

DownloadTickers == {"AAPL", "BP.L"}

DownloadResponses ==
    {ProviderException, ProviderEmpty, ProviderNoClose,
     ProviderData(Series(0, NaN, NaN)), ProviderData(Series(3, Pct(10), Pct(20)))}

InitDownload ==
    /\ \E n \in 0..MaxTickers :
         \E tickers \in [1..n -> DownloadTickers], feed \in [1..n -> DownloadResponses] :
            download = DownloadEnter(tickers, feed)
    /\ universe = Idle /\ ranker = Idle /\ optimizer = Idle
    /\ simulator = Idle /\ pipeline = Idle

NextDownload == DownloadCheck \/ DownloadAttempt \/ DownloadEnd

SpecDownload == InitDownload /\ [][NextDownload]_vars

\* The answer for tickers[k] carries at least one price.
Usable(resp) == resp.kind = "data" /\ resp.series.points > 0

\* The tickers, in input order, whose answer was usable.
RECURSIVE UsableTickers(_, _, _)
UsableTickers(tickers, feed, k) ==
    IF k > Len(tickers) THEN << >>
    ELSE (IF Usable(feed[k]) THEN << tickers[k] >> ELSE << >>)
         \o UsableTickers(tickers, feed, k + 1)

\* C7: in download_prices a failing ticker never ends the loop: every ticker is
\* attempted in input order whatever the earlier answers were, exactly the
\* tickers with usable data are kept, and the call raises only when no ticker
\* yielded usable data.
C7_FailuresAreLocal ==
    /\ download.pc = "loop" => download.log = SubSeq(download.tickers, 1, download.k - 1)
    /\ download.pc \in {"returned", "raised"} /\ download.tickers # << >> =>
           download.log = download.tickers
    /\ download.pc = "returned" =>
           /\ [k \in 1..Len(download.result.value) |-> download.result.value[k].name]
                 = UsableTickers(download.tickers, download.feed, 1)
           /\ download.result.value # << >>
    /\ download.pc = "raised" =>
           UsableTickers(download.tickers, download.feed, 1) = << >>
    /\ download.pc \in {"returned", "raised"} =>
           download = DownloadPrices(download.tickers, download.feed)

\* C7 witness: the first ticker's download raised, the second returned nothing,
\* the third was still fetched and is the only column returned.
C7_Witness ==
    /\ download.pc = "returned"
    /\ Len(download.tickers) = 3
    /\ download.feed[1].kind = "exception"
    /\ download.feed[2].kind \in {"empty", "noclose"}
    /\ Len(download.result.value) = 1
    /\ download.result.value[1].name = download.tickers[3]

(***************************************************************************)
(* rank_candidates                                                         *)
(*                                                                         *)
(* A metrics bundle is a sequence of entries [id, mu, vol] in index order. *)
(***************************************************************************)
Entry(id, mu, vol) == [id |-> id, mu |-> mu, vol |-> vol]

\* score.fillna(-1e9)
Sentinel == -1000000000

\* vol.replace(0, np.nan)
ReplaceZero(v) == IF IsFinite(v) /\ v.n = 0 THEN NaN ELSE v

\* sharpe = mu / (vol.replace(0, np.nan))
Sharpe(e) == FDiv(e.mu, ReplaceZero(e.vol))

\* The if / elif / else on risk.
RawScore(e, risk) ==
    IF risk = "conservative"
    THEN FAdd(FMul(Fin(6, 10), Sharpe(e)), FMul(Fin(4, 10), FNeg(e.vol)))
    ELSE IF risk = "balanced"
    THEN FAdd(FMul(Fin(8, 10), Sharpe(e)), FMul(Fin(2, 10), FNeg(e.vol)))
    ELSE Sharpe(e)

\* score.replace([np.inf, -np.inf], np.nan).fillna(-1e9)
Score(e, risk) ==
    IF IsFinite(RawScore(e, risk)) THEN RawScore(e, risk) ELSE Num(Sentinel)

PositionOrders(n) == { p \in [1..n -> 1..n] : \A a, b \in 1..n : a # b => p[a] # p[b] }

\* sort_values sorting the wrong way round.
InSortedOrderAscending(scores, p) ==
    \A a \in 1..(Len(scores) - 1) : ~FLess(scores[p[a + 1]], scores[p[a]])

\* p lists the positions of scores in an order sort_values(ascending=False)
\* may produce.  The sort is numpy's default quicksort, which is not stable:
\* equal scores may come out in any order.
InSortedOrder(scores, p) ==
    \A a \in 1..(Len(scores) - 1) : ~FLess(scores[p[a]], scores[p[a + 1]])

\* Python's head(n), as s[:n].
HeadOf(s, n) == SliceTo(s, n)

\* The results rank_candidates may return.
RankCandidates(bundle, risk, max_candidates) ==
    LET scores == [k \in 1..Len(bundle) |-> Score(bundle[k], risk)]
    IN { HeadOf([a \in 1..Len(bundle) |-> bundle[p[a]].id], max_candidates) :
           p \in { q \in PositionOrders(Len(bundle)) : InSortedOrder(scores, q) } }

RankEnter(bundle, risk, max_candidates) ==
    [pc |-> "score", bundle |-> bundle, risk |-> risk, max_candidates |-> max_candidates,
     score |-> << >>, result |-> << >>]

\* Lines 187-197: the score series.
RankScore ==
    /\ ranker.pc = "score"
    /\ ranker' = [ranker EXCEPT !.pc = "sort",
                    !.score = [k \in 1..Len(ranker.bundle) |->
                                  Score(ranker.bundle[k], ranker.risk)]]
    /\ UNCHANGED << universe, download, optimizer, simulator, pipeline >>

\* Line 198: sort, head, tolist.
RankSortHead ==
    /\ ranker.pc = "sort"
    /\ \E r \in RankCandidates(ranker.bundle, ranker.risk, ranker.max_candidates) :
          ranker' = [ranker EXCEPT !.pc = "returned", !.result = r]
    /\ UNCHANGED << universe, download, optimizer, simulator, pipeline >>

\* The largest metrics bundle of the ranker runs.
MaxBundle == 3

Ids == << "A", "B", "C", "D", "E" >>

RiskTags == {"conservative", "balanced", "aggressive", "other"}

\* (mu, vol) pairs: two equal Sharpe ratios at different volatilities, a zero
\* volatility, a missing volatility, a missing return, an infinite return and
\* a loss.
RankProfiles ==
    { << Pct(20), Pct(10) >>, << Pct(40), Pct(20) >>, << Pct(10), Num(0) >>,
      << Pct(10), NaN >>, << NaN, Pct(10) >>, << PosInf, Pct(10) >>,
      << Pct(-10), Pct(20) >> }

InitRank ==
    /\ \E n \in 0..MaxBundle :
         \E prof \in [1..n -> RankProfiles], risk \in RiskTags,
            max_candidates \in -1..(MaxBundle + 1) :
            ranker = RankEnter([k \in 1..n |-> Entry(Ids[k], prof[k][1], prof[k][2])],
                               risk, max_candidates)
    /\ universe = Idle /\ download = Idle /\ optimizer = Idle
    /\ simulator = Idle /\ pipeline = Idle

NextRank == RankScore \/ RankSortHead

SpecRank == InitRank /\ [][NextRank]_vars

\* The score the ranking is specified by: 0.6*sharpe - 0.4*vol (conservative),
\* 0.8*sharpe - 0.2*vol (balanced), sharpe (otherwise), sharpe = mu / vol being
\* undefined at vol = 0; an undefined or non-finite score is the sentinel.
SpecifiedScore(e, risk) ==
    LET sharpe == IF IsFinite(e.vol) /\ e.vol.n = 0 THEN NaN ELSE FDiv(e.mu, e.vol)
        raw == IF risk = "conservative"
               THEN FSub(FMul(Fin(3, 5), sharpe), FMul(Fin(2, 5), e.vol))
               ELSE IF risk = "balanced"
               THEN FSub(FMul(Fin(4, 5), sharpe), FMul(Fin(1, 5), e.vol))
               ELSE sharpe
    IN IF IsFinite(raw) THEN raw ELSE Num(-1000000000)

EntryOf(bundle, id) == CHOOSE e \in Range(bundle) : e.id = id

\* C2: for max_candidates >= 0 rank_candidates returns min(max_candidates,
\* |bundle|) identifiers of the bundle, none twice, in non-increasing order of
\* the specified score.
C2_RankedByScore ==
    ranker.pc = "returned" /\ ranker.max_candidates >= 0 =>
        LET r == ranker.result
            sc(k) == SpecifiedScore(EntryOf(ranker.bundle, r[k]), ranker.risk)
        IN /\ Len(r) = Min(ranker.max_candidates, Len(ranker.bundle))
           /\ Range(r) \subseteq { e.id : e \in Range(ranker.bundle) }
           /\ \A a, b \in 1..Len(r) : a # b => r[a] # r[b]
           /\ \A a, b \in 1..Len(r) : a < b => FGeq(sc(a), sc(b))

\* C2 witness: a bundle of three with a zero-volatility and a missing-return
\* instrument, cut to two candidates, the sentinel-scored one returned last.
C2_Witness ==
    /\ ranker.pc = "returned"
    /\ Len(ranker.bundle) = 3 /\ ranker.max_candidates = 2 /\ Len(ranker.result) = 2
    /\ \E e \in Range(ranker.bundle) : IsFinite(e.vol) /\ e.vol.n = 0
    /\ \E e \in Range(ranker.bundle) : IsNaN(e.mu)
    /\ SpecifiedScore(EntryOf(ranker.bundle, ranker.result[2]), ranker.risk) = Num(Sentinel)
    /\ SpecifiedScore(EntryOf(ranker.bundle, ranker.result[1]), ranker.risk) # Num(Sentinel)

(***************************************************************************)
(* optimize_portfolio                                                      *)
(*                                                                         *)
(* mu and cov arrive as a bundle of entries [id, mu, vol].  The covariance *)
(* matrices of the runs are those of perfectly correlated returns,         *)
(* cov[a][b] = vol[a] * vol[b], so that every square root is exact.  One   *)
(* call of rng.random(n) is a vector of n levels, level v standing for the *)
(* draw v / DrawScale in [0, 1).                                           *)
(***************************************************************************)
Cov(a, b) == FMul(a.vol, b.vol)

target_vol_for_risk(risk) ==
    IF risk = "conservative" THEN Pct(10)
    ELSE IF risk = "balanced" THEN Pct(18)
    ELSE IF risk = "aggressive" THEN Pct(28)
    ELSE Pct(18)

risk_penalty_for_risk(risk) ==
    IF risk = "conservative" THEN Num(10)
    ELSE IF risk = "balanced" THEN Num(6)
    ELSE IF risk = "aggressive" THEN Num(3)
    ELSE Num(6)

DrawLevels == {0, 1}

DrawScale == 2

RECURSIVE FSum(_, _)
FSum(f, k) == IF k = 0 THEN Num(0) ELSE FAdd(FSum(f, k - 1), f[k])

\* w = rng.random(len(assets)); w /= w.sum()
Normalise(draw) ==
    LET raw == [k \in 1..Len(draw) |-> Fin(draw[k], DrawScale)]
        total == FSum(raw, Len(raw))
    IN [k \in 1..Len(draw) |-> FDiv(raw[k], total)]

\* w @ mu_vec
Dot(w, assets) == FSum([k \in 1..Len(w) |-> FMul(w[k], assets[k].mu)], Len(w))

\* w @ cov_mat @ w
Quad(w, assets) ==
    LET row(b) == FSum([a \in 1..Len(w) |-> FMul(w[a], Cov(assets[a], assets[b]))], Len(w))
    IN FSum([b \in 1..Len(w) |-> FMul(row(b), w[b])], Len(w))

\* Lines 240-244: the candidate drawn in one iteration and its score.
Candidate(assets, risk, draw) ==
    LET w == Normalise(draw)
        exp_ret == Dot(w, assets)
        vol == FSqrt(Quad(w, assets))
    IN [w |-> w, exp_ret |-> exp_ret, vol |-> vol,
        score |-> FAdd(FNeg(exp_ret),
                       FMul(risk_penalty_for_risk(risk),
                            FAbs(FSub(vol, target_vol_for_risk(risk)))))]

\* A candidate of equal score replaces the retained one.
KeepBestLastOfTies(st, c) ==
    IF ~FLess(st.best_score, c.score) /\ ~IsNaN(c.score)
    THEN [st EXCEPT !.best_score = c.score, !.best = << c >>]
    ELSE st

\* Lines 245-247: "if score < best_score".  best is None (<< >>) or one candidate.
KeepBest(st, c) ==
    IF FLess(c.score, st.best_score)
    THEN [st EXCEPT !.best_score = c.score, !.best = << c >>]
    ELSE st

\* One iteration of "for _ in range(tries)".  evaluated is the history of the
\* candidates drawn so far; the program does not keep it.
OptStep(st, draw) ==
    LET c == Candidate(st.assets, st.risk, draw)
    IN [KeepBest(st, c) EXCEPT !.t = @ + 1, !.evaluated = Append(@, c)]

\* Lines 249-253: raise, or return the retained candidate as a Series over assets.
OptFinish(st) ==
    IF st.best = << >>
    THEN [st EXCEPT !.pc = "raised", !.result = [status |-> "raised", error |-> "RuntimeError"]]
    ELSE [st EXCEPT !.pc = "returned",
                    !.result = [status |-> "returned",
                                ids |-> [k \in 1..Len(st.assets) |-> st.assets[k].id],
                                weights |-> st.best[1].w,
                                exp_ret |-> st.best[1].exp_ret,
                                vol |-> st.best[1].vol]]

\* Lines 230-238: assets = mu.index.tolist()[:max_assets], best = None,
\* best_score = np.inf.
OptEnter(bundle, risk, max_assets, tries) ==
    [pc |-> "loop", bundle |-> bundle, risk |-> risk, max_assets |-> max_assets,
     tries |-> tries, assets |-> SliceTo(bundle, max_assets), best |-> << >>,
     best_score |-> PosInf, t |-> 0, evaluated |-> << >>,
     result |-> [status |-> "running"]]

RECURSIVE OptRun(_, _)
OptRun(st, draws) ==
    IF st.t < st.tries THEN OptRun(OptStep(st, draws[st.t + 1]), draws)
    ELSE OptFinish(st)

\* optimize_portfolio as a whole, draws[k] being the k-th call of rng.random.
OptimizePortfolio(bundle, risk, max_assets, draws) ==
    OptRun(OptEnter(bundle, risk, max_assets, Len(draws)), draws)

OptIterate ==
    /\ optimizer.pc = "loop"
    /\ optimizer.t < optimizer.tries
    /\ \E draw \in [1..Len(optimizer.assets) -> DrawLevels] :
          optimizer' = OptStep(optimizer, draw)
    /\ UNCHANGED << universe, download, ranker, simulator, pipeline >>

OptEnd ==
    /\ optimizer.pc = "loop"
    /\ optimizer.t >= optimizer.tries
    /\ optimizer' = OptFinish(optimizer)
    /\ UNCHANGED << universe, download, ranker, simulator, pipeline >>

\* The largest bundle and the largest iteration budget of the optimiser runs.
MaxOptAssets == 2

MaxTries == 2

\* (mu, vol) pairs: two ordinary instruments, a missing return and a return
\* of -inf (a price of zero in the history).
OptProfiles ==
    { << Pct(8), Pct(10) >>, << Pct(15), Pct(30) >>, << NaN, Pct(10) >>,
      << NegInf, Pct(10) >> }

InitOpt ==
    /\ \E n \in 0..MaxOptAssets :
         \E prof \in [1..n -> OptProfiles], risk \in RiskTags,
            max_assets \in -1..MaxOptAssets, tries \in 0..MaxTries :
            optimizer = OptEnter([k \in 1..n |-> Entry(Ids[k], prof[k][1], prof[k][2])],
                                 risk, max_assets, tries)
    /\ universe = Idle /\ download = Idle /\ ranker = Idle
    /\ simulator = Idle /\ pipeline = Idle

NextOpt == OptIterate \/ OptEnd

SpecOpt == InitOpt /\ [][NextOpt]_vars

\* The sum of a weight vector.
WeightSum(w) == FSum(w, Len(w))

\* C1: whenever optimize_portfolio returns, the weights are indexed by the
\* first min(max_assets, |mu|) identifiers of mu, every weight is >= 0 and the
\* weights sum to 1.
C1_ReturnedWeightsValid ==
    optimizer.pc = "returned" =>
        /\ optimizer.result.ids =
              [k \in 1..Min(optimizer.max_assets, Len(optimizer.bundle)) |->
                  optimizer.bundle[k].id]
        /\ \A k \in 1..Len(optimizer.result.weights) :
              FGeq(optimizer.result.weights[k], Num(0))
        /\ WeightSum(optimizer.result.weights) = Num(1)

\* C5: optimize_portfolio raises exactly when tries = 0 or the asset list is
\* empty.
C5_RaisesIffNothingToEvaluate ==
    optimizer.pc \in {"returned", "raised"} =>
        (optimizer.pc = "raised" <=> (optimizer.tries = 0 \/ optimizer.assets = << >>))

\* Position k holds the first lowest score of the candidates at the positions
\* in among.
FirstLowest(evaluated, among, k) ==
    /\ k \in among
    /\ \A j \in among : FGeq(evaluated[j].score, evaluated[k].score)
    /\ \A j \in among : j < k => FLess(evaluated[k].score, evaluated[j].score)

\* C10 as claimed: after every iteration a candidate is retained, it is the
\* first of those with the lowest score among all candidates evaluated so far,
\* and the call returns it with its own expected return and volatility.
C10_RetainedIsFirstLowestOfAll ==
    /\ optimizer.pc \in {"loop", "returned", "raised"} /\ optimizer.t >= 1 =>
          /\ optimizer.best # << >>
          /\ \E k \in 1..Len(optimizer.evaluated) :
                /\ FirstLowest(optimizer.evaluated, 1..Len(optimizer.evaluated), k)
                /\ optimizer.best[1] = optimizer.evaluated[k]
    /\ optimizer.pc \in {"returned", "raised"} /\ optimizer.tries >= 1 =>
          /\ optimizer.pc = "returned"
          /\ optimizer.result.weights = optimizer.best[1].w
          /\ optimizer.result.exp_ret = optimizer.best[1].exp_ret
          /\ optimizer.result.vol = optimizer.best[1].vol

\* The positions of the candidates whose score is a number below +inf.
Comparable(evaluated) ==
    { j \in 1..Len(evaluated) : FLess(evaluated[j].score, PosInf) }

\* C10 amended: after every iteration the retained candidate is the first of
\* those with the lowest score among the candidates evaluated so far whose score
\* is a number below +inf; a candidate scoring NaN or +inf is never retained,
\* and while there is no other none is retained.  The call returns the retained
\* candidate with its own expected return and volatility, and raises when none
\* is retained.
C10_RetainedIsFirstLowestComparable ==
    /\ optimizer.pc \in {"loop", "returned", "raised"} =>
          /\ Len(optimizer.evaluated) = optimizer.t
          /\ Comparable(optimizer.evaluated) = {} => optimizer.best = << >>
          /\ Comparable(optimizer.evaluated) # {} =>
                /\ optimizer.best # << >>
                /\ \E k \in 1..Len(optimizer.evaluated) :
                      /\ FirstLowest(optimizer.evaluated,
                                     Comparable(optimizer.evaluated), k)
                      /\ optimizer.best[1] = optimizer.evaluated[k]
                /\ optimizer.best_score = optimizer.best[1].score
    /\ optimizer.pc \in {"returned", "raised"} =>
          /\ optimizer.t = optimizer.tries
          /\ optimizer.pc = "raised" <=> optimizer.best = << >>
    /\ optimizer.pc = "returned" =>
          /\ optimizer.result.weights = optimizer.best[1].w
          /\ optimizer.result.exp_ret = optimizer.best[1].exp_ret
          /\ optimizer.result.vol = optimizer.best[1].vol

\* C10 witness: two different candidates of equal score were evaluated and the
\* first one was returned.
C10_Witness ==
    /\ optimizer.pc = "returned"
    /\ Len(optimizer.evaluated) = 2
    /\ optimizer.evaluated[1].score = optimizer.evaluated[2].score
    /\ optimizer.evaluated[1].w # optimizer.evaluated[2].w
    /\ optimizer.result.weights = optimizer.evaluated[1].w

(***************************************************************************)
(* simulate_goal, and the report main computes from its outcomes           *)
(*                                                                         *)
(* weights is a sequence of [id, w]; mu and cov are a bundle as above.     *)
(* rng.normal(mu_month, vol_month) is mu_month + vol_month * z for a       *)
(* standard normal z; a draw is given as u = z / sqrt(12), which makes     *)
(* vol_month * z = sqrt(cov_port_annual) * u exact.  The generator is a    *)
(* stream of such draws fixed by the seed and a count of the draws taken.  *)
(***************************************************************************)
Weight(id, w) == [id |-> id, w |-> w]

\* The bundle entries of the weighted identifiers: mu.loc[weights.index].
Loc(bundle, weights) == [k \in 1..Len(weights) |-> EntryOf(bundle, weights[k].id)]

WeightsOnly(weights) == [k \in 1..Len(weights) |-> weights[k].w]

\* The horizon taken as one month too long.
MonthsOffByOne(years) == years * 12 + 1

\* months = years * 12
Months(years) == years * 12

\* np.zeros(runs, dtype=float)
Zeros(runs) == [k \in 1..runs |-> Num(0)]

\* The next draw of the stream, cyclically.
NextDraw(rng) == rng.stream[(rng.n % Len(rng.stream)) + 1]

\* Lines 283-285: one month of one trajectory.
MonthStep(value, mu_month, vol_port_annual, u, monthly_contrib) ==
    LET r == FAdd(mu_month, FMul(vol_port_annual, u))
    IN FAdd(FMul(value, FAdd(Num(1), r)), monthly_contrib)

SimEnter(weights, bundle, years, start_capital, monthly_contrib, runs, stream) ==
    [pc |-> "setup", weights |-> weights, bundle |-> bundle, years |-> years,
     start_capital |-> start_capital, monthly_contrib |-> monthly_contrib,
     runs |-> runs, rng |-> [stream |-> stream, n |-> 0],
     months |-> 0, mu_port_annual |-> NaN, mu_month |-> NaN, vol_port_annual |-> NaN,
     outcomes |-> << >>, i |-> 0, m |-> 0, value |-> NaN,
     goal |-> NaN, reached |-> NaN, prob |-> NaN]

\* Lines 271-279.  math.sqrt raises ValueError on a negative variance.
\* vol_port_annual is math.sqrt(cov_port_annual), the value returned third.
SimSetup ==
    /\ simulator.pc = "setup"
    /\ LET w == WeightsOnly(simulator.weights)
           assets == Loc(simulator.bundle, simulator.weights)
           cov_port == Quad(w, assets)
       IN simulator' =
            IF IsFinite(cov_port) /\ cov_port.n < 0
            THEN [simulator EXCEPT !.pc = "raised"]
            ELSE [simulator EXCEPT !.pc = "runs",
                                   !.months = Months(simulator.years),
                                   !.mu_port_annual = Dot(w, assets),
                                   !.mu_month = FDiv(Dot(w, assets), Num(12)),
                                   !.vol_port_annual = FSqrt(cov_port),
                                   !.outcomes = Zeros(simulator.runs)]
    /\ UNCHANGED << universe, download, ranker, optimizer, pipeline >>

\* Line 281: "for i in range(runs): value = start_capital".
SimStartRun ==
    /\ simulator.pc = "runs"
    /\ simulator.i < simulator.runs
    /\ simulator' = [simulator EXCEPT !.pc = "months", !.i = @ + 1, !.m = 0,
                                      !.value = simulator.start_capital]
    /\ UNCHANGED << universe, download, ranker, optimizer, pipeline >>

\* Lines 282-285: "for _ in range(months)".
SimMonth ==
    /\ simulator.pc = "months"
    /\ simulator.m < simulator.months
    /\ simulator' =
         [simulator EXCEPT
            !.m = @ + 1,
            !.rng.n = @ + 1,
            !.value = MonthStep(simulator.value,
                                simulator.mu_month,
                                simulator.vol_port_annual,
                                NextDraw(simulator.rng),
                                simulator.monthly_contrib)]
    /\ UNCHANGED << universe, download, ranker, optimizer, pipeline >>

\* Line 286: outcomes[i] = value.
SimEndRun ==
    /\ simulator.pc = "months"
    /\ simulator.m >= simulator.months
    /\ simulator' = [simulator EXCEPT !.pc = "runs",
                                      !.outcomes[simulator.i] = simulator.value]
    /\ UNCHANGED << universe, download, ranker, optimizer, pipeline >>

\* Line 288.
SimReturn ==
    /\ simulator.pc = "runs"
    /\ simulator.i >= simulator.runs
    /\ simulator' = [simulator EXCEPT !.pc = "returned"]
    /\ UNCHANGED << universe, download, ranker, optimizer, pipeline >>

\* The number of outcomes >= goal; a NaN outcome compares false.
RECURSIVE CountReached(_, _, _)
CountReached(outcomes, goal, k) ==
    IF k = 0 THEN 0
    ELSE CountReached(outcomes, goal, k - 1) + (IF FGeq(outcomes[k], goal) THEN 1 ELSE 0)

\* The count of the outcomes that reach the goal, not divided by their number.
ReachedCount(outcomes, goal) ==
    Num(CountReached(outcomes, goal, Len(outcomes)))

\* (outcomes >= goal).mean(): numpy's mean of an empty array is 0/0, NaN.
ReachedFraction(outcomes, goal) ==
    FDiv(Num(CountReached(outcomes, goal, Len(outcomes))), Num(Len(outcomes)))

\* main, lines 363-364: goal = float(args.goal); prob = (...).mean() * 100.0.
SimReport ==
    /\ simulator.pc = "returned"
    /\ \E goal \in {Num(100), Num(150)} :
          simulator' = [simulator EXCEPT
                          !.pc = "reported",
                          !.goal = goal,
                          !.reached = ReachedFraction(simulator.outcomes, goal),
                          !.prob = FMul(ReachedFraction(simulator.outcomes, goal), Num(100))]
    /\ UNCHANGED << universe, download, ranker, optimizer, pipeline >>

\* The largest number of trajectories of the simulator runs.
MaxRuns == 2

\* Portfolios with whole monthly growth factors: one instrument of no drift
\* and 100% deviation; two instruments with a monthly drift of 1; one
\* instrument with a missing return; and no instrument at all.
ExactPortfolios ==
    { [weights |-> << Weight("A", Num(1)) >>,
       bundle |-> << Entry("A", Num(0), Num(1)), Entry("B", Num(12), Num(2)) >>],
      [weights |-> << Weight("A", Fin(1, 2)), Weight("B", Fin(1, 2)) >>,
       bundle |-> << Entry("A", Num(12), Num(0)), Entry("B", Num(12), Num(2)) >>],
      [weights |-> << Weight("A", Num(1)) >>,
       bundle |-> << Entry("A", NaN, Num(1)) >>],
      [weights |-> << >>, bundle |-> << >>] }

\* weights = {A: 1.0}, mu = {A: 0.08}, cov = {A: {A: 0.0004}}.
ZeroHorizonPortfolio ==
    [weights |-> << Weight("A", Num(1)) >>, bundle |-> << Entry("A", Pct(8), Pct(2)) >>]

\* The horizons: one year, none, and a negative one (range(months) is empty).
\* The 8% instrument is run at years <= 0 only: its monthly factor, of
\* denominator 1200, cannot be compounded twelve times within 32-bit integers.
SimCases ==
    { << p, y >> : p \in ExactPortfolios, y \in {-1, 0, 1} }
    \cup { << ZeroHorizonPortfolio, y >> : y \in {-1, 0} }

\* The last stream has a period of five draws, so that the two trajectories of
\* a run of twelve months see different draws.
NoiseStreams ==
    { << Num(0) >>, << Num(1) >>, << Num(-1) >>, << Num(1), Num(-2) >>,
      << Num(1), Num(0), Num(0), Num(0), Fin(-1, 2) >> }

InitSim ==
    /\ \E c \in SimCases, start_capital \in {Num(0), Num(100)},
          monthly_contrib \in {Num(0), Num(10)}, runs \in 0..MaxRuns,
          stream \in NoiseStreams :
          simulator = SimEnter(c[1].weights, c[1].bundle, c[2], start_capital,
                               monthly_contrib, runs, stream)
    /\ universe = Idle /\ download = Idle /\ ranker = Idle
    /\ optimizer = Idle /\ pipeline = Idle

NextSim == SimSetup \/ SimStartRun \/ SimMonth \/ SimEndRun \/ SimReturn \/ SimReport

SpecSim == InitSim /\ [][NextSim]_vars

\* C3 as claimed: for every runs >= 0 simulate_goal returns runs outcomes and
\* the fraction of them that reach the goal lies in [0, 1].
C3_RunsOutcomesFractionInUnitInterval ==
    /\ simulator.pc \in {"returned", "reported"} =>
          Len(simulator.outcomes) = simulator.runs
    /\ simulator.pc = "reported" =>
          FGeq(simulator.reached, Num(0)) /\ FGeq(Num(1), simulator.reached)

\* C3 amended: simulate_goal returns runs outcomes for every runs >= 0; for
\* runs >= 1 the fraction of outcomes >= goal is k / runs for a whole k in
\* 0..runs, so it lies in [0, 1]; for runs = 0 it is NaN.
C3_FractionDefinedFromOneRun ==
    /\ simulator.pc \in {"returned", "reported"} =>
          Len(simulator.outcomes) = simulator.runs
    /\ simulator.pc = "reported" /\ simulator.runs >= 1 =>
          /\ FGeq(simulator.reached, Num(0)) /\ FGeq(Num(1), simulator.reached)
          /\ \E k \in 0..simulator.runs : simulator.reached = Fin(k, simulator.runs)
          /\ simulator.prob = FMul(simulator.reached, Num(100))
    /\ simulator.pc = "reported" /\ simulator.runs = 0 => IsNaN(simulator.reached)

\* C3 witness: two trajectories of a year, one ending at or above the goal and
\* one below it.
C3_Witness ==
    /\ simulator.pc = "reported"
    /\ simulator.runs = 2 /\ simulator.months = 12
    /\ simulator.reached = Fin(1, 2)

\* C4: with years = 0 every outcome equals start_capital.
C4_ZeroYearsKeepsStartCapital ==
    simulator.pc \in {"returned", "reported"} /\ simulator.years = 0 =>
        /\ simulator.months = 0
        /\ simulator.rng.n = 0
        /\ \A k \in 1..Len(simulator.outcomes) :
              simulator.outcomes[k] = simulator.start_capital

\* C4 witness: the 8% instrument, years = 0, two trajectories, a non-zero
\* contribution that is never added.
C4_Witness ==
    /\ simulator.pc = "returned"
    /\ simulator.years = 0 /\ simulator.runs = 2
    /\ simulator.bundle = ZeroHorizonPortfolio.bundle
    /\ simulator.monthly_contrib = Num(10)
    /\ simulator.start_capital = Num(100)
    /\ simulator.outcomes = << Num(100), Num(100) >>

(***************************************************************************)
(* compute_metrics                                                         *)
(*                                                                         *)
(* The log-return statistics are those the series carry.  A column with a  *)
(* single price has no return at all and is dropped by                     *)
(* rets.dropna(axis=1, how="all"); a column with two prices has one        *)
(* return, hence a mean but no sample variance (NaN).                      *)
(***************************************************************************)
HasReturns(c) == c.series.points >= 2

ComputeMetrics(prices) ==
    LET kept == SelectSeq(prices, HasReturns)
    IN [k \in 1..Len(kept) |->
          Entry(kept[k].name, kept[k].series.mu,
                IF kept[k].series.points >= 3 THEN kept[k].series.sigma ELSE NaN)]

\* main: valid = mu.dropna().index.intersection(prices.columns)
DropMissingMu(bundle) == SelectSeq(bundle, LAMBDA e : ~IsNaN(e.mu))

(***************************************************************************)
(* main                                                                    *)
(*                                                                         *)
(* ran lists the pipeline functions called so far, attempted the tickers   *)
(* whose download was attempted.  An uncaught exception ends the process   *)
(* with status 1, sys.exit(2) with status 2, falling off main with 0.      *)
(* simulate_goal runs 10000 trajectories whose outcomes only feed the      *)
(* printed report; the frame records that it ran, not the outcomes.        *)
(***************************************************************************)
Exit(st, code, message) ==
    [st EXCEPT !.pc = "exited", !.exit_code = code, !.stderr = message]

Called(st, f) == [st EXCEPT !.ran = Append(@, f)]

\* main going on to download_prices with an empty universe.
AfterUniverseUnchecked(st, u) ==
    [st EXCEPT !.pc = "download", !.universe = u, !.tickers = u.value]

\* Lines 329-331: "if not tickers: ... sys.exit(2)".
AfterUniverse(st, u) ==
    IF u.value = << >>
    THEN Exit([st EXCEPT !.universe = u, !.tickers = u.value], 2, "Failed to build universe.")
    ELSE [st EXCEPT !.pc = "download", !.universe = u, !.tickers = u.value]

\* Lines 334-337: an exception of download_prices is not caught; fewer than
\* three columns end the run.
AfterDownload(st, d) ==
    LET logged == [st EXCEPT !.attempted = d.log]
    IN IF d.result.status = "raised" THEN Exit(logged, 1, d.result.error)
       ELSE IF Len(d.result.value) < 3
       THEN Exit([logged EXCEPT !.prices = d.result.value], 2,
                 "Too few valid assets after downloading data.")
       ELSE [logged EXCEPT !.pc = "metrics", !.prices = d.result.value]

\* Lines 351-354: an exception of optimize_portfolio is not caught.
AfterOptimize(st, o) ==
    IF o.result.status = "raised" THEN Exit(st, 1, o.result.error)
    ELSE [st EXCEPT !.pc = "simulate",
                    !.weights = [k \in 1..Len(o.result.ids) |->
                                    Weight(o.result.ids[k], o.result.weights[k])]]

MainEnter(args, provider) ==
    [pc |-> "start", args |-> args, provider |-> provider, universe |-> [status |-> "running"],
     tickers |-> << >>, attempted |-> << >>, prices |-> << >>, bundle |-> << >>,
     top |-> << >>, weights |-> << >>, ran |-> << >>, exit_code |-> -1, stderr |-> ""]

\* Lines 322-331.
MainBuildUniverse ==
    /\ pipeline.pc = "start"
    /\ pipeline' =
         AfterUniverse(Called(pipeline, "build_universe"),
                       BuildUniverse([include_sp500 |-> ~pipeline.args.no_sp500,
                                      include_ftse100 |-> ~pipeline.args.no_ftse,
                                      include_nasdaq100 |-> ~pipeline.args.no_nasdaq100,
                                      include_indices |-> ~pipeline.args.no_indices,
                                      fallback_if_empty |-> TRUE]))
    /\ UNCHANGED << universe, download, ranker, optimizer, simulator >>

\* Lines 334-337.
MainDownload ==
    /\ pipeline.pc = "download"
    /\ pipeline' =
         AfterDownload(Called(pipeline, "download_prices"),
                       DownloadPrices(pipeline.tickers,
                                      [k \in 1..Len(pipeline.tickers) |->
                                          pipeline.provider[pipeline.tickers[k]]]))
    /\ UNCHANGED << universe, download, ranker, optimizer, simulator >>

\* Lines 340-343.
MainMetrics ==
    /\ pipeline.pc = "metrics"
    /\ pipeline' = [Called(pipeline, "compute_metrics") EXCEPT
                      !.pc = "rank",
                      !.bundle = DropMissingMu(ComputeMetrics(pipeline.prices))]
    /\ UNCHANGED << universe, download, ranker, optimizer, simulator >>

\* Lines 346-348.
MainRank ==
    /\ pipeline.pc = "rank"
    /\ \E top \in RankCandidates(pipeline.bundle, pipeline.args.risk,
                                 pipeline.args.max_candidates) :
          pipeline' = [Called(pipeline, "rank_candidates") EXCEPT
                         !.pc = "optimize", !.top = top]
    /\ UNCHANGED << universe, download, ranker, optimizer, simulator >>

\* Lines 351-354: mu_top and cov_top are the bundle in the order of top.
MainOptimize ==
    /\ pipeline.pc = "optimize"
    /\ LET mu_top == [k \in 1..Len(pipeline.top) |-> EntryOf(pipeline.bundle, pipeline.top[k])]
           n == Len(SliceTo(mu_top, pipeline.args.max_assets))
       IN \E draws \in [1..pipeline.args.tries -> [1..n -> DrawLevels]] :
             pipeline' =
               AfterOptimize(Called(pipeline, "optimize_portfolio"),
                             OptimizePortfolio(mu_top, pipeline.args.risk,
                                               pipeline.args.max_assets, draws))
    /\ UNCHANGED << universe, download, ranker, optimizer, simulator >>

\* Lines 357-360.
MainSimulate ==
    /\ pipeline.pc = "simulate"
    /\ pipeline' = [Called(pipeline, "simulate_goal") EXCEPT !.pc = "report"]
    /\ UNCHANGED << universe, download, ranker, optimizer, simulator >>

\* Lines 363-384: the report is printed and main returns.
MainReport ==
    /\ pipeline.pc = "report"
    /\ pipeline' = [pipeline EXCEPT !.pc = "exited", !.exit_code = 0]
    /\ UNCHANGED << universe, download, ranker, optimizer, simulator >>

\* The number of tickers the provider has an answer of its own for.
MaxListed == 3

\* One ticker of each list first; the provider has nothing on any other.
Listed == << "AAPL", "BP.L", "AMAT", "MSFT", "SHEL.L" >>

AllTickers ==
    Range(get_sp500_tickers) \cup Range(get_ftse100_tickers) \cup Range(get_nasdaq100_tickers)

\* A failing download, a series of one price, a series of two prices, and a
\* full series.
MainResponses ==
    { ProviderException, ProviderData(Series(1, NaN, NaN)),
      ProviderData(Series(2, Pct(8), NaN)), ProviderData(Series(3, Pct(8), Pct(10))) }

MainArgs ==
    [no_sp500 : BOOLEAN, no_ftse : BOOLEAN, no_nasdaq100 : BOOLEAN, no_indices : BOOLEAN,
     risk : {"conservative", "balanced", "aggressive"}, max_candidates : {25},
     max_assets : {0, 10}, tries : {0, 1}]

InitMain ==
    /\ \E args \in MainArgs, own \in [Range(SubSeq(Listed, 1, MaxListed)) -> MainResponses] :
          pipeline = MainEnter(args, [t \in AllTickers |->
                                         IF t \in DOMAIN own THEN own[t] ELSE ProviderEmpty])
    /\ universe = Idle /\ download = Idle /\ ranker = Idle
    /\ optimizer = Idle /\ simulator = Idle

NextMain ==
    \/ MainBuildUniverse \/ MainDownload \/ MainMetrics \/ MainRank
    \/ MainOptimize \/ MainSimulate \/ MainReport

SpecMain == InitMain /\ [][NextMain]_vars

\* C6: whenever fewer than 2 instruments survive metrics computation the run
\* aborts: ranking, optimisation and simulation do not run and the exit status
\* is not 0.
C6_AbortsBelowTwoInstruments ==
    "compute_metrics" \in Range(pipeline.ran) /\ Len(pipeline.bundle) < 2 =>
        /\ Range(pipeline.ran) \cap {"rank_candidates", "optimize_portfolio", "simulate_goal"} = {}
        /\ pipeline.pc = "exited" => pipeline.exit_code # 0

NoListSelected == pipeline.args.no_sp500 /\ pipeline.args.no_ftse /\ pipeline.args.no_nasdaq100

\* C9 as claimed: with every list toggle off build_universe fails, and the run
\* ends before any download is attempted.
C9_EmptyUniverseRaises ==
    pipeline.pc # "start" /\ NoListSelected =>
        /\ pipeline.universe.status = "raised"
        /\ pipeline.pc = "exited" /\ pipeline.exit_code # 0
        /\ pipeline.attempted = << >>

\* C9 amended: with every list toggle off build_universe returns the empty
\* list (it never raises); main then reports "Failed to build universe." and
\* exits with status 2 before download_prices is called, so no download is
\* attempted.  With a list selected the universe is not empty and
\* download_prices is called.
C9_EmptyUniverseExitsBeforeDownload ==
    /\ pipeline.pc # "start" /\ NoListSelected =>
          /\ pipeline.universe = [status |-> "returned", value |-> << >>]
          /\ pipeline.pc = "exited" /\ pipeline.exit_code = 2
          /\ pipeline.stderr = "Failed to build universe."
          /\ pipeline.ran = << "build_universe" >>
          /\ pipeline.attempted = << >>
    /\ pipeline.pc # "start" /\ ~NoListSelected =>
          /\ pipeline.universe.status = "returned" /\ pipeline.tickers # << >>
          /\ pipeline.pc # "download" => "download_prices" \in Range(pipeline.ran)

\* C9 witness: a run with all three lists excluded has ended.
C9_Witness ==
    /\ pipeline.pc = "exited"
    /\ NoListSelected
    /\ pipeline.exit_code = 2
    /\ pipeline.tickers = << >>

====
